---- MODULE Spec2Model ----
(***************************************************************************)
(* Model of the goolm key types, the one-time-key record, their libolm     *)
(* pickle codec and the AESSHA256 cipher of mautrix-go.                    *)
(*                                                                         *)
(*   crypto/goolm/crypto/curve25519.go   (src/unnamed/part_001, l. 78-213) *)
(*   crypto/goolm/crypto/one_time_key.go                                   *)
(*   crypto/goolm/cipher/aes_sha256.go   (src/unnamed/part_001, l. 1-76)   *)
(*                                                                         *)
(* A byte slice is a sequence over 0..255; a nil and an empty slice are    *)
(* both << >> (bytes.Equal does not tell them apart).  A Go call that      *)
(* returns (value, error) is a record with an err field; a run-time panic  *)
(* (slice bounds out of range) is the field panic.                         *)
(***************************************************************************)
EXTENDS Integers, Sequences, FiniteSets, Bags, TLC

VARIABLES
    encoder,    \* libolmpickle.Encoder: the bytes written to the sink so far
    records,    \* history: the values pickled into the sink, in order
    offset,     \* the reader's position in encoder.Bytes()
    decoded,    \* the values the reader has unpickled from the sink, in order
    res,        \* what the reader's last UnpickleLibOlm call returned
    heap,       \* the byte buffer the caller handed to NewAESSHA256
    c,          \* the AESSHA256 instance
    kdfInfo0,   \* history: the bytes of that buffer when NewAESSHA256 ran
    kdfLimit,   \* the number of bytes the reader crypto.HKDFSHA256 returns yields
    call,       \* the last call on the AESSHA256 instance and its result
    table,      \* the rows of the event table, a row's rowid being its place
    last        \* the last call on the EventQuery and what it returned

pickleVars == <<encoder, records, offset, decoded, res>>
cipherVars == <<heap, c, kdfInfo0, kdfLimit, call>>
dbVars == <<table, last>>
vars == <<encoder, records, offset, decoded, res, heap, c, kdfInfo0, kdfLimit, call,
          table, last>>

(***************************************************************************)
(* Bounds of the model.                                                    *)
(***************************************************************************)
\* records pickled back-to-back into one sink
MaxRecords == 2

(***************************************************************************)
(* Program constants.                                                      *)
(***************************************************************************)
Curve25519PrivateKeyLength == 32
Curve25519PublicKeyLength == 32

Byte == 0..255
NoError == "nil"
ErrValueTooShort == "ErrValueTooShort"
ErrBadScalarLength == "bad scalar length"

(***************************************************************************)
(* Byte-slice helpers.                                                     *)
(***************************************************************************)
\* the function f over 1..n as a sequence value
Bytes(f, n) == SubSeq(f, 1, n)
Fill(b, n) == Bytes([i \in 1..n |-> b], n)
Ramp(b, n) == Bytes([i \in 1..n |-> (b + i) % 256], n)

\* value[k:] with k <= len(value); Go panics on k > len(value)
SliceFrom(value, k) == SubSeq(value, k + 1, Len(value))
SliceFromPanics(value, k) == k > Len(value)

\* bytes.Equal
BytesEqual(a, b) == a = b

(***************************************************************************)
(* libolmpickle: the Encoder's writers and the Unpickle* readers.          *)
(***************************************************************************)
Write(enc, bytes) == enc \o bytes
WriteEmptyBytes(enc, n) == enc \o Fill(0, n)
WriteUInt32(enc, v) ==
    enc \o << (v \div 16777216) % 256, (v \div 65536) % 256,
              (v \div 256) % 256, v % 256 >>
WriteBool(enc, b) == enc \o << IF b THEN 1 ELSE 0 >>

\* A block of zero bytes is how an absent field is written, and it is read
\* back as an absent (nil) field: the pickle tests of the key pairs
\* (TestEd25519PicklePubKeyOnly, TestEd25519PicklePrivKeyOnly) demand a pair
\* with a nil half to come back equal.
IsZeroByteSlice(bytes) == \A i \in 1..Len(bytes) : bytes[i] = 0

UnpickleBytes(value, length) ==
    IF Len(value) < length
    THEN [val |-> << >>, read |-> 0, err |-> ErrValueTooShort]
    ELSE IF IsZeroByteSlice(SubSeq(value, 1, length))
    THEN [val |-> << >>, read |-> length, err |-> NoError]
    ELSE [val |-> SubSeq(value, 1, length), read |-> length, err |-> NoError]

UnpickleUInt32(value) ==
    IF Len(value) < 4
    THEN [val |-> 0, read |-> 0, err |-> ErrValueTooShort]
    ELSE [val |-> value[1] * 16777216 + value[2] * 65536 + value[3] * 256 + value[4],
          read |-> 4, err |-> NoError]

UnpickleBool(value) ==
    IF Len(value) < 1
    THEN [val |-> FALSE, read |-> 0, err |-> ErrValueTooShort]
    ELSE [val |-> value[1] # 0, read |-> 1, err |-> NoError]

(***************************************************************************)
(* curve25519.X25519(scalar, Basepoint) of golang.org/x/crypto: the scalar *)
(* is clamped, the result is a deterministic 32-byte image of it; a scalar *)
(* of another length is an error.  The image is a stand-in permutation     *)
(* mix, not the curve arithmetic.                                          *)
(***************************************************************************)
ClampScalar(k) ==
    Bytes([i \in 1..32 |->
            IF i = 1 THEN k[1] - (k[1] % 8)
            ELSE IF i = 32 THEN (k[32] % 64) + 64
            ELSE k[i]], 32)

ScalarBaseMult(k) ==
    LET e == ClampScalar(k)
    IN  Bytes([i \in 1..32 |->
                LET m == (e[i] * 5 + e[(i % 32) + 1] * 3 + i * 9) % 256
                IN  IF i = 32 THEN m % 128 ELSE m], 32)

\* Curve25519PrivateKey.PubKey
PubKey(private) ==
    IF Len(private) # Curve25519PrivateKeyLength
    THEN [val |-> << >>, err |-> ErrBadScalarLength]
    ELSE [val |-> ScalarBaseMult(private), err |-> NoError]

EmptyKeyPair == [PrivateKey |-> << >>, PublicKey |-> << >>]

\* Curve25519GenerateKey, rand.Read having filled the buffer with rnd
Curve25519GenerateKey(rnd) ==
    LET privateKey == rnd
        pub == PubKey(privateKey)
    IN  [kp |-> [PrivateKey |-> privateKey, PublicKey |-> pub.val], err |-> pub.err]

MutGenerateFromPrivateNoDerive(private) ==
    IF Len(private) # Curve25519PrivateKeyLength
    THEN [kp |-> EmptyKeyPair, err |-> ErrBadScalarLength]
    ELSE [kp |-> [PrivateKey |-> private, PublicKey |-> private], err |-> NoError]

Curve25519GenerateFromPrivate(private) ==
    LET pub == PubKey(private)
    IN  IF pub.err # NoError
        THEN [kp |-> EmptyKeyPair, err |-> pub.err]
        ELSE [kp |-> [PrivateKey |-> private, PublicKey |-> pub.val], err |-> NoError]

\* Curve25519PrivateKey.Equal / Curve25519PublicKey.Equal
PrivateKeyEqual(a, b) == BytesEqual(a, b)
PublicKeyEqual(a, b) == BytesEqual(a, b)

(***************************************************************************)
(* Pickling the public key and the key pair.                               *)
(***************************************************************************)
MutPublicKeyPickleOmitAbsent(pk, enc) ==
    IF Len(pk) = Curve25519PublicKeyLength THEN Write(enc, pk) ELSE enc

PublicKeyPickleLibOlm(pk, enc) ==
    IF Len(pk) = Curve25519PublicKeyLength
    THEN Write(enc, pk)
    ELSE WriteEmptyBytes(enc, Curve25519PublicKeyLength)

PublicKeyUnpickleLibOlm(pk, value) ==
    LET u == UnpickleBytes(value, Curve25519PublicKeyLength)
    IN  IF u.err # NoError
        THEN [val |-> pk, read |-> 0, err |-> u.err]
        ELSE [val |-> u.val, read |-> u.read, err |-> NoError]

MutKeyPairPickleSwapped(kp, enc) ==
    LET e1 == IF Len(kp.PrivateKey) = Curve25519PrivateKeyLength
              THEN Write(enc, kp.PrivateKey)
              ELSE WriteEmptyBytes(enc, Curve25519PrivateKeyLength)
    IN  PublicKeyPickleLibOlm(kp.PublicKey, e1)

KeyPairPickleLibOlm(kp, enc) ==
    LET e1 == PublicKeyPickleLibOlm(kp.PublicKey, enc)
    IN  IF Len(kp.PrivateKey) = Curve25519PrivateKeyLength
        THEN Write(e1, kp.PrivateKey)
        ELSE WriteEmptyBytes(e1, Curve25519PrivateKeyLength)

MutKeyPairUnpickleRawSlice(kp, value) ==
    LET p == PublicKeyUnpickleLibOlm(kp.PublicKey, value)
    IN  IF p.err # NoError
        THEN [val |-> kp, read |-> 0, err |-> p.err, panic |-> FALSE]
        ELSE IF Len(value) < p.read + Curve25519PrivateKeyLength
        THEN [val |-> [kp EXCEPT !.PublicKey = p.val], read |-> p.read,
              err |-> ErrValueTooShort, panic |-> FALSE]
        ELSE [val |-> [PrivateKey |-> SubSeq(value, p.read + 1,
                                             p.read + Curve25519PrivateKeyLength),
                       PublicKey |-> p.val],
              read |-> p.read + Curve25519PrivateKeyLength, err |-> NoError,
              panic |-> FALSE]

MutKeyPairUnpickleFixedOffset(kp, value) ==
    LET p == PublicKeyUnpickleLibOlm(kp.PublicKey, value)
        at == Curve25519PublicKeyLength
    IN  IF SliceFromPanics(value, at)
        THEN [val |-> kp, read |-> 0, err |-> NoError, panic |-> TRUE]
        ELSE LET s == UnpickleBytes(SliceFrom(value, at), Curve25519PrivateKeyLength)
             IN  IF s.err # NoError
                 THEN [val |-> [kp EXCEPT !.PublicKey = p.val], read |-> at,
                       err |-> s.err, panic |-> FALSE]
                 ELSE [val |-> [PrivateKey |-> s.val, PublicKey |-> p.val],
                       read |-> at + s.read, err |-> NoError, panic |-> FALSE]

KeyPairUnpickleLibOlm(kp, value) ==
    LET p == PublicKeyUnpickleLibOlm(kp.PublicKey, value)
    IN  IF p.err # NoError
        THEN [val |-> kp, read |-> 0, err |-> p.err, panic |-> FALSE]
        ELSE IF SliceFromPanics(value, p.read)
        THEN [val |-> [kp EXCEPT !.PublicKey = p.val], read |-> 0,
              err |-> NoError, panic |-> TRUE]
        ELSE LET s == UnpickleBytes(SliceFrom(value, p.read), Curve25519PrivateKeyLength)
             IN  IF s.err # NoError
                 THEN [val |-> [kp EXCEPT !.PublicKey = p.val], read |-> p.read,
                       err |-> s.err, panic |-> FALSE]
                 ELSE [val |-> [PrivateKey |-> s.val, PublicKey |-> p.val],
                       read |-> p.read + s.read, err |-> NoError, panic |-> FALSE]

(***************************************************************************)
(* OneTimeKey.                                                             *)
(***************************************************************************)
EmptyOneTimeKey == [ID |-> 0, Published |-> FALSE, Key |-> EmptyKeyPair]

OneTimeKeyEqual(otk, s) ==
    IF otk.ID # s.ID THEN FALSE
    ELSE IF otk.Published # s.Published THEN FALSE
    ELSE IF ~PrivateKeyEqual(otk.Key.PrivateKey, s.Key.PrivateKey) THEN FALSE
    ELSE IF ~PublicKeyEqual(otk.Key.PublicKey, s.Key.PublicKey) THEN FALSE
    ELSE TRUE

MutOneTimeKeyPickleNoFlag(otk, enc) ==
    KeyPairPickleLibOlm(otk.Key, WriteUInt32(enc, otk.ID))

OneTimeKeyPickleLibOlm(otk, enc) ==
    KeyPairPickleLibOlm(otk.Key, WriteBool(WriteUInt32(enc, otk.ID), otk.Published))

OneTimeKeyUnpickleLibOlm(otk, value) ==
    LET i == UnpickleUInt32(value)
    IN  IF i.err # NoError
        THEN [val |-> otk, read |-> 0, err |-> i.err, panic |-> FALSE]
        ELSE
        LET o1 == [otk EXCEPT !.ID = i.val]
            t1 == i.read
        IN  IF SliceFromPanics(value, t1)
            THEN [val |-> o1, read |-> 0, err |-> NoError, panic |-> TRUE]
            ELSE
            LET b == UnpickleBool(SliceFrom(value, t1))
            IN  IF b.err # NoError
                THEN [val |-> o1, read |-> 0, err |-> b.err, panic |-> FALSE]
                ELSE
                LET o2 == [o1 EXCEPT !.Published = b.val]
                    t2 == t1 + b.read
                IN  IF SliceFromPanics(value, t2)
                    THEN [val |-> o2, read |-> 0, err |-> NoError, panic |-> TRUE]
                    ELSE
                    LET k == KeyPairUnpickleLibOlm(o2.Key, SliceFrom(value, t2))
                        o3 == [o2 EXCEPT !.Key = k.val]
                    IN  IF k.panic
                        THEN [val |-> o3, read |-> 0, err |-> NoError, panic |-> TRUE]
                        ELSE IF k.err # NoError
                        THEN [val |-> o3, read |-> 0, err |-> k.err, panic |-> FALSE]
                        ELSE [val |-> o3, read |-> t2 + k.read, err |-> NoError,
                              panic |-> FALSE]

(***************************************************************************)
(* The values the callers pickle.  A key pair comes out of                 *)
(* Curve25519GenerateKey or Curve25519GenerateFromPrivate, or is such a    *)
(* pair with a field cleared or replaced by the caller (both fields are    *)
(* exported), as the pickle tests do with "keyPair.PrivateKey = nil".      *)
(***************************************************************************)
RandOutputs == { Ramp(16, 32) }
PrivateInputs == { Fill(7, 32), Fill(0, 32), Fill(7, 31) }

GeneratedPair == Curve25519GenerateKey(Ramp(16, 32)).kp

ConstructedSources ==
    { [kp |-> Curve25519GenerateKey(r).kp, how |-> "generate"] : r \in RandOutputs }
    \cup
    { [kp |-> Curve25519GenerateFromPrivate(p).kp,
       how |-> IF IsZeroByteSlice(p) THEN "fromZeroPrivate" ELSE "fromPrivate"] :
        p \in { q \in PrivateInputs : Curve25519GenerateFromPrivate(q).err = NoError } }

EditedSources ==
    { [kp |-> [GeneratedPair EXCEPT !.PrivateKey = << >>], how |-> "publicOnly"],
      [kp |-> [GeneratedPair EXCEPT !.PublicKey = << >>], how |-> "privateOnly"],
      [kp |-> [GeneratedPair EXCEPT !.PrivateKey = Fill(9, 31)], how |-> "shortPrivate"],
      [kp |-> [GeneratedPair EXCEPT !.PublicKey = Fill(9, 33)], how |-> "longPublic"],
      [kp |-> [GeneratedPair EXCEPT !.PublicKey = Fill(9, 32)], how |-> "otherPublic"] }

KeySources == ConstructedSources \cup EditedSources

SourceOf(how) == CHOOSE s \in KeySources : s.how = how

\* 16909060 is 0x01020304
OneTimeKeyInputs ==
    { [id |-> 1, published |-> FALSE, src |-> SourceOf("generate")],
      [id |-> 16909060, published |-> TRUE, src |-> SourceOf("generate")],
      [id |-> 1, published |-> TRUE, src |-> SourceOf("publicOnly")],
      [id |-> 16909060, published |-> FALSE, src |-> SourceOf("fromZeroPrivate")] }

\* a key pair stored in the sink is kept in the shape of a OneTimeKey with
\* the ID and Published fields at their zero values
AsRecord(kp) == [ID |-> 0, Published |-> FALSE, Key |-> kp]

NoResult ==
    [kind |-> "none", val |-> EmptyOneTimeKey, read |-> 0, err |-> NoError,
     panic |-> FALSE, given |-> 0]

PickleInit ==
    /\ encoder = << >>
    /\ records = << >>
    /\ offset = 0
    /\ decoded = << >>
    /\ res = NoResult

(***************************************************************************)
(* The writer: kp.PickleLibOlm(encoder) and otk.PickleLibOlm(encoder).     *)
(***************************************************************************)
PickleKeyPair(src) ==
    /\ Len(records) < MaxRecords
    /\ encoder' = KeyPairPickleLibOlm(src.kp, encoder)
    /\ records' = Append(records,
            [kind |-> "KeyPair", val |-> AsRecord(src.kp), how |-> src.how,
             start |-> Len(encoder), bytes |-> SliceFrom(encoder', Len(encoder))])
    /\ UNCHANGED <<offset, decoded, res>>
    /\ UNCHANGED cipherVars
    /\ UNCHANGED dbVars

PickleOneTimeKey(id, published, src) ==
    LET otk == [ID |-> id, Published |-> published, Key |-> src.kp]
    IN  /\ Len(records) < MaxRecords
        /\ encoder' = OneTimeKeyPickleLibOlm(otk, encoder)
        /\ records' = Append(records,
                [kind |-> "OneTimeKey", val |-> otk, how |-> src.how,
                 start |-> Len(encoder), bytes |-> SliceFrom(encoder', Len(encoder))])
        /\ UNCHANGED <<offset, decoded, res>>
        /\ UNCHANGED cipherVars
        /\ UNCHANGED dbVars

(***************************************************************************)
(* The reader: x := T{}; n, err := x.UnpickleLibOlm(buf[offset:offset+m]), *)
(* and offset += n when err is nil.  m is all that is left of the buffer,  *)
(* or less when the buffer the reader holds was cut short.                 *)
(***************************************************************************)
Remaining == Len(encoder) - offset
NextKind == IF Len(decoded) < Len(records) THEN records[Len(decoded) + 1].kind ELSE "none"
Given(m) == SubSeq(encoder, offset + 1, offset + m)
\* the lengths the reader is handed: the whole rest of the buffer, or a slice
\* cut at or next to a field boundary of the record
CutLengths == { 0, 3, 4, 5, 31, 32, 36, 37, 63, 68 }
GivenLengths == { m \in 0..Remaining : m \in CutLengths \/ m = Remaining }

Finish(kind, r, m) ==
    /\ res' = [kind |-> kind, val |-> r.val, read |-> r.read, err |-> r.err,
               panic |-> r.panic, given |-> m]
    /\ IF r.err = NoError /\ ~r.panic
       THEN /\ decoded' = Append(decoded, [val |-> r.val, read |-> r.read])
            /\ offset' = offset + r.read
       ELSE UNCHANGED <<decoded, offset>>
    /\ UNCHANGED <<encoder, records>>
    /\ UNCHANGED cipherVars
    /\ UNCHANGED dbVars

UnpickleKeyPair(m) ==
    /\ NextKind = "KeyPair"
    /\ LET r == KeyPairUnpickleLibOlm(EmptyKeyPair, Given(m))
       IN  Finish("KeyPair", [r EXCEPT !.val = AsRecord(r.val)], m)

UnpickleOneTimeKey(m) ==
    /\ NextKind = "OneTimeKey"
    /\ Finish("OneTimeKey", OneTimeKeyUnpickleLibOlm(EmptyOneTimeKey, Given(m)), m)

WritesKeyPair == \E src \in KeySources : PickleKeyPair(src)
WritesOneTimeKey ==
    \E in \in OneTimeKeyInputs : PickleOneTimeKey(in.id, in.published, in.src)
ReadsKeyPair == \E m \in GivenLengths : UnpickleKeyPair(m)
ReadsOneTimeKey == \E m \in GivenLengths : UnpickleOneTimeKey(m)

PickleNext ==
    \/ WritesKeyPair
    \/ WritesOneTimeKey
    \/ ReadsKeyPair
    \/ ReadsOneTimeKey

(***************************************************************************)
(* The primitives under the cipher.  HKDF-SHA256, HMAC-SHA256 and the AES  *)
(* block function are stand-ins with the shape of the real ones: HKDF is a *)
(* deterministic byte stream of (key, salt, info), HMAC a deterministic    *)
(* 32-byte tag of (key, message), the block function a keyed permutation   *)
(* of 16-byte blocks with its inverse.  CBC chaining and PKCS#7 padding    *)
(* are computed as such.                                                   *)
(***************************************************************************)
BlockSize == 16
ErrUnexpectedEOF == "ErrUnexpectedEOF"
ErrNoKeyProvided == "ErrNoKeyProvided"
ErrIVNotBlockSize == "ErrIVNotBlockSize"
ErrNotMultipleBlockSize == "ErrNotMultipleBlockSize"
ErrInvalidPadding == "ErrInvalidPadding"

\* a position-weighted checksum of every byte of seq
Digest(seq) ==
    LET s == seq
    IN  (BagCardinality([i \in 1..Len(s) |-> (s[i] + 1) * (i + 2)]) + 7 * Len(s)) % 65521

Bit(a, k) == (a \div (2 ^ k)) % 2
XorByte(a, b) ==
      ((Bit(a, 0) + Bit(b, 0)) % 2)
    + ((Bit(a, 1) + Bit(b, 1)) % 2) * 2
    + ((Bit(a, 2) + Bit(b, 2)) % 2) * 4
    + ((Bit(a, 3) + Bit(b, 3)) % 2) * 8
    + ((Bit(a, 4) + Bit(b, 4)) % 2) * 16
    + ((Bit(a, 5) + Bit(b, 5)) % 2) * 32
    + ((Bit(a, 6) + Bit(b, 6)) % 2) * 64
    + ((Bit(a, 7) + Bit(b, 7)) % 2) * 128
XorBytes(x, y) ==
    LET a == x
        b == y
    IN  Bytes([i \in 1..Len(a) |-> XorByte(a[i], b[i])], Len(a))

\* HKDF-SHA256 expands to at most 255 hash lengths
HKDFSHA256Limit == 255 * 32

\* crypto.HKDFSHA256(key, salt, info): a reader over the expand stream, which
\* ends after kdfLimit bytes
HKDFSHA256(key, salt, info) ==
    [seed |-> (Digest(key) * 7 + Digest(salt) * 3 + Digest(info) * 13) % 4093,
     limit |-> kdfLimit]
HKDFByte(s, i) == (((s + 1) * (i + 11) * (i + 3)) % 8191) % 256

\* io.ReadFull(r, buf) on a zeroed buf of n bytes
ReadFull(r, n) ==
    LET s == r.seed
        limit == r.limit
    IN  [buf |-> Bytes([i \in 1..n |-> IF i <= limit THEN HKDFByte(s, i) ELSE 0], n),
         err |-> IF n <= limit THEN NoError ELSE ErrUnexpectedEOF]

\* crypto.HMACSHA256(key, input): hash.Sum(nil), 32 bytes in a slice of capacity 32
HMACSHA256(key, input) ==
    LET k == key
        d == (Digest(k) * 17 + Digest(input) * 5 + Len(input)) % 65521
    IN  Bytes([i \in 1..32 |-> (d * i + (d \div 256) + k[i] * 3 + i) % 256], 32)
HMACSHA256Cap == 32

AESEncryptBlock(key, blk) ==
    LET k == key
        b == blk
    IN  Bytes([i \in 1..BlockSize |->
                (b[(i % BlockSize) + 1] + k[i] + 3 * k[i + 16]) % 256], BlockSize)
AESDecryptBlock(key, blk) ==
    LET k == key
        b == blk
    IN  Bytes([j \in 1..BlockSize |->
                LET i == ((j + BlockSize - 2) % BlockSize) + 1
                IN  (b[i] + 1024 - k[i] - 3 * k[i + 16]) % 256], BlockSize)

PKCS7Pad(data) ==
    LET n == BlockSize - (Len(data) % BlockSize)
    IN  data \o Fill(n, n)
PKCS7Unpad(data) ==
    LET d == data
        n == IF Len(d) = 0 THEN 0 ELSE d[Len(d)]
    IN  IF \/ n = 0 \/ n > BlockSize \/ n > Len(d)
           \/ \E i \in (Len(d) - n + 1)..Len(d) : d[i] # n
        THEN [val |-> << >>, err |-> ErrInvalidPadding]
        ELSE [val |-> SubSeq(d, 1, Len(d) - n), err |-> NoError]

RECURSIVE CBCEncryptBlocks(_, _, _)
CBCEncryptBlocks(key, prev, data) ==
    IF Len(data) = 0 THEN << >>
    ELSE LET ct == AESEncryptBlock(key, XorBytes(SubSeq(data, 1, BlockSize), prev))
         IN  ct \o CBCEncryptBlocks(key, ct, SliceFrom(data, BlockSize))

RECURSIVE CBCDecryptBlocks(_, _, _)
CBCDecryptBlocks(key, prev, data) ==
    IF Len(data) = 0 THEN << >>
    ELSE LET ct == SubSeq(data, 1, BlockSize)
         IN  XorBytes(AESDecryptBlock(key, ct), prev)
                \o CBCDecryptBlocks(key, ct, SliceFrom(data, BlockSize))

\* aescbc.Encrypt(key, iv, plaintext)
AESCBCEncrypt(key, iv, plaintext) ==
    IF Len(key) = 0 THEN [val |-> << >>, err |-> ErrNoKeyProvided]
    ELSE IF Len(iv) # BlockSize THEN [val |-> << >>, err |-> ErrIVNotBlockSize]
    ELSE [val |-> CBCEncryptBlocks(key, iv, PKCS7Pad(plaintext)), err |-> NoError]

\* aescbc.Decrypt(key, iv, ciphertext)
AESCBCDecrypt(key, iv, ciphertext) ==
    IF Len(key) = 0 THEN [val |-> << >>, err |-> ErrNoKeyProvided]
    ELSE IF Len(iv) # BlockSize THEN [val |-> << >>, err |-> ErrIVNotBlockSize]
    ELSE IF Len(ciphertext) % BlockSize # 0
    THEN [val |-> << >>, err |-> ErrNotMultipleBlockSize]
    ELSE PKCS7Unpad(CBCDecryptBlocks(key, iv, ciphertext))

(***************************************************************************)
(* AESSHA256.                                                              *)
(***************************************************************************)
MutDeriveOffByOne(kdfInfo, key) ==
    LET hkdf == HKDFSHA256(key, << >>, kdfInfo)
        rd == ReadFull(hkdf, 80)
        keymatter == rd.buf
    IN  [key |-> SubSeq(keymatter, 1, 32),
         hmacKey |-> SubSeq(keymatter, 32, 63),
         iv |-> SliceFrom(keymatter, 64),
         err |-> rd.err]

deriveAESKeys(kdfInfo, key) ==
    LET hkdf == HKDFSHA256(key, << >>, kdfInfo)
        rd == ReadFull(hkdf, 80)
        keymatter == rd.buf
    IN  [key |-> SubSeq(keymatter, 1, 32),
         hmacKey |-> SubSeq(keymatter, 33, 64),
         iv |-> SliceFrom(keymatter, 64),
         err |-> rd.err]

\* the bytes a slice header (ptr, len) points at
Deref(sl) == SubSeq(heap[sl.ptr], 1, sl.len)

\* NewAESSHA256(kdfInfo): the instance keeps the slice header it was given
NewAESSHA256(kdfInfo) == [kdfInfo |-> kdfInfo]

EncryptResult(cc, key, plaintext) ==
    LET keys == deriveAESKeys(Deref(cc.kdfInfo), key)
    IN  IF keys.err # NoError
        THEN [val |-> << >>, err |-> keys.err]
        ELSE AESCBCEncrypt(keys.key, keys.iv, plaintext)

MutDecryptHMACKey(cc, key, ciphertext) ==
    LET keys == deriveAESKeys(Deref(cc.kdfInfo), key)
    IN  IF keys.err # NoError
        THEN [val |-> << >>, err |-> keys.err]
        ELSE AESCBCDecrypt(keys.hmacKey, keys.iv, ciphertext)

DecryptResult(cc, key, ciphertext) ==
    LET keys == deriveAESKeys(Deref(cc.kdfInfo), key)
    IN  IF keys.err # NoError
        THEN [val |-> << >>, err |-> keys.err]
        ELSE AESCBCDecrypt(keys.key, keys.iv, ciphertext)

MACResult(cc, key, message) ==
    LET keys == deriveAESKeys(Deref(cc.kdfInfo), key)
    IN  IF keys.err # NoError
        THEN [val |-> << >>, err |-> keys.err]
        ELSE [val |-> HMACSHA256(keys.hmacKey, message), err |-> NoError]

MutVerifyFullCompare(cc, key, message, givenMAC) ==
    LET mac == MACResult(cc, key, message)
    IN  IF mac.err # NoError
        THEN [ok |-> FALSE, err |-> mac.err, panic |-> FALSE]
        ELSE [ok |-> BytesEqual(givenMAC, mac.val), err |-> NoError, panic |-> FALSE]

\* mac[:len(givenMAC)] panics when len(givenMAC) > cap(mac)
VerifyResult(cc, key, message, givenMAC) ==
    LET mac == MACResult(cc, key, message)
    IN  IF mac.err # NoError
        THEN [ok |-> FALSE, err |-> mac.err, panic |-> FALSE]
        ELSE IF Len(givenMAC) > HMACSHA256Cap
        THEN [ok |-> FALSE, err |-> NoError, panic |-> TRUE]
        ELSE [ok |-> BytesEqual(givenMAC, SubSeq(mac.val, 1, Len(givenMAC))),
              err |-> NoError, panic |-> FALSE]

(***************************************************************************)
(* The callers of the cipher.                                              *)
(***************************************************************************)
Contexts == { <<84, 69, 83, 84>>, <<79, 76, 77>> }
MasterSecrets == { Ramp(40, 32), Fill(255, 32) }
Plaintexts == { << >>, <<104>>, Ramp(0, 15), Fill(16, 16), Ramp(100, 17) }
Messages == { << >>, <<109, 115, 103>> }
BadCiphertexts == { << >>, Fill(1, 15), Fill(1, 16) }
ArbitraryTags == { << >>, Fill(0, 32), Fill(0, 33) }
\* what the caller later copies over the start of the buffer it passed
BufferWrites == { <<88>> }
FlipPrefixLengths == { 1, 2, 17, 32 }
FlipBits == { 0, 7 }

FlipBit(b, k) == IF Bit(b, k) = 1 THEN b - 2 ^ k ELSE b + 2 ^ k

NoFrom == [op |-> "none", key |-> << >>, in |-> << >>]
NoCall ==
    [op |-> "none", key |-> << >>, in |-> << >>, tag |-> << >>, how |-> "none",
     out |-> << >>, ok |-> FALSE, err |-> NoError, panic |-> FALSE,
     info |-> << >>, from |-> NoFrom]

CipherInit ==
    \E ctx \in Contexts :
        /\ heap = [info |-> ctx]
        /\ c = NewAESSHA256([ptr |-> "info", len |-> Len(ctx)])
        /\ kdfInfo0 = ctx
        /\ kdfLimit = HKDFSHA256Limit
        /\ call = NoCall

\* the caller reuses the buffer it passed to NewAESSHA256: copy(buf, w)
CallerWrite(w) ==
    /\ heap' = [heap EXCEPT !.info =
                    Bytes([i \in 1..Len(@) |-> IF i <= Len(w) THEN w[i] ELSE @[i]],
                          Len(@))]
    /\ heap' # heap
    /\ call' = [NoCall EXCEPT !.op = "CallerWrite"]
    /\ UNCHANGED <<c, kdfInfo0, kdfLimit>>
    /\ UNCHANGED pickleVars
    /\ UNCHANGED dbVars

Encrypt(key, plaintext) ==
    LET r == EncryptResult(c, key, plaintext)
    IN  /\ call' = [NoCall EXCEPT !.op = "Encrypt", !.key = key, !.in = plaintext,
                        !.out = r.val, !.err = r.err, !.info = Deref(c.kdfInfo)]
        /\ UNCHANGED <<heap, c, kdfInfo0, kdfLimit>>
        /\ UNCHANGED pickleVars
        /\ UNCHANGED dbVars

\* the ciphertext is what the call just before returned from Encrypt
\* ("output"), or bytes of the caller's own
Decrypt(key, ciphertext, how) ==
    LET r == DecryptResult(c, key, ciphertext)
    IN  /\ call' = [NoCall EXCEPT !.op = "Decrypt", !.key = key, !.in = ciphertext,
                        !.how = how, !.out = r.val, !.err = r.err,
                        !.info = Deref(c.kdfInfo),
                        !.from = IF how = "output"
                                 THEN [op |-> call.op, key |-> call.key, in |-> call.in]
                                 ELSE NoFrom]
        /\ UNCHANGED <<heap, c, kdfInfo0, kdfLimit>>
        /\ UNCHANGED pickleVars
        /\ UNCHANGED dbVars

MAC(key, message) ==
    LET r == MACResult(c, key, message)
    IN  /\ call' = [NoCall EXCEPT !.op = "MAC", !.key = key, !.in = message,
                        !.out = r.val, !.err = r.err, !.info = Deref(c.kdfInfo)]
        /\ UNCHANGED <<heap, c, kdfInfo0, kdfLimit>>
        /\ UNCHANGED pickleVars
        /\ UNCHANGED dbVars

\* the tag is cut or altered from what the call just before returned from MAC
\* ("prefix", "flipped", "long"), or bytes of the caller's own ("arbitrary")
Verify(key, message, givenMAC, how) ==
    LET r == VerifyResult(c, key, message, givenMAC)
    IN  /\ call' = [NoCall EXCEPT !.op = "Verify", !.key = key, !.in = message,
                        !.tag = givenMAC, !.how = how, !.ok = r.ok, !.err = r.err,
                        !.panic = r.panic, !.info = Deref(c.kdfInfo),
                        !.from = IF how = "arbitrary" THEN NoFrom
                                 ELSE [op |-> call.op, key |-> call.key, in |-> call.in]]
        /\ UNCHANGED <<heap, c, kdfInfo0, kdfLimit>>
        /\ UNCHANGED pickleVars
        /\ UNCHANGED dbVars

Prefix(t, n) == SubSeq(t, 1, n)
Flipped(tag, n, i, k) ==
    LET t == tag
    IN  Bytes([j \in 1..n |-> IF j = i THEN FlipBit(t[j], k) ELSE t[j]], n)

AfterMAC == call.op = "MAC" /\ call.err = NoError

CallerWrites == \E w \in BufferWrites : CallerWrite(w)
Encrypts == \E key \in MasterSecrets, p \in Plaintexts : Encrypt(key, p)
DecryptsOutput ==
    \E key \in MasterSecrets :
        call.op = "Encrypt" /\ call.err = NoError /\ Decrypt(key, call.out, "output")
DecryptsArbitrary ==
    \E ct \in BadCiphertexts : Decrypt(Ramp(40, 32), ct, "arbitrary")
MACs == \E key \in MasterSecrets, m \in Messages : MAC(key, m)
VerifiesPrefix ==
    \E key \in MasterSecrets, n \in 0..32 :
        AfterMAC /\ Verify(key, call.in, Prefix(call.out, n), "prefix")
VerifiesFlipped ==
    \E n \in FlipPrefixLengths : \E i \in 1..n, k \in FlipBits :
        AfterMAC /\ Verify(call.key, call.in, Flipped(call.out, n, i, k), "flipped")
VerifiesLong ==
    \E extra \in { <<0>>, <<1, 2>> } :
        AfterMAC /\ Verify(call.key, call.in, call.out \o extra, "long")
VerifiesArbitrary ==
    \E key \in MasterSecrets, t \in ArbitraryTags :
        Verify(key, <<109, 115, 103>>, t, "arbitrary")

CipherNext ==
    \/ CallerWrites
    \/ Encrypts
    \/ DecryptsOutput
    \/ DecryptsArbitrary
    \/ MACs
    \/ VerifiesPrefix
    \/ VerifiesFlipped
    \/ VerifiesLong
    \/ VerifiesArbitrary

\* no cipher instance is in use
CipherIdle ==
    /\ heap = [info |-> << >>]
    /\ c = NewAESSHA256([ptr |-> "info", len |-> 0])
    /\ kdfInfo0 = << >>
    /\ kdfLimit = HKDFSHA256Limit
    /\ call = NoCall

(***************************************************************************)
(* The event table of the database package and its EventQuery.             *)
(*                                                                         *)
(* A nullable column, a Go pointer, map or json.RawMessage holds << >> for *)
(* NULL / nil and <<v>> for the value v; a Go string holds "" when empty.  *)
(***************************************************************************)
NULL == << >>
Some(v) == <<v>>

\* dbutil.StrPtr and dbutil.NumPtr: the zero value is stored as NULL
StrPtr(val) == IF val = "" THEN NULL ELSE Some(val)
NumPtr(val) == IF val = 0 THEN NULL ELSE Some(val)

\* unsafeJSONString: a nil message is stored as NULL, any other as its text
unsafeJSONString(content) == content

\* sql.NullString.String and sql.NullInt64.Int64: the zero value for NULL
NullString(col) == IF col = NULL THEN "" ELSE col[1]
NullInt64(col) == IF col = NULL THEN 0 ELSE col[1]

\* the event types and relation types the package names
EventMessage == "m.room.message"
EventSticker == "m.sticker"
EventEncrypted == "m.room.encrypted"
RelReplace == "m.replace"

\* gjson.GetBytes(evt.Content, reactionKeyPath): an event content is kept as
\* the one token that stands for its JSON text; only a reaction's content
\* carries the string m.relates_to.key
reactionKey(content) ==
    IF content = Some("{key:+}") THEN Some("+")
    ELSE IF content = Some("{key:-}") THEN Some("-")
    ELSE NULL

\* type Event struct, as MautrixToEvent and the decryption code fill it
NewEvent ==
    [ RowID |-> 0, TimelineRowID |-> 0, RoomID |-> "!room", ID |-> "",
      Sender |-> "@u", Type |-> EventMessage, StateKey |-> NULL,
      Timestamp |-> 1000, Content |-> Some("{}"), Decrypted |-> NULL,
      DecryptedType |-> "", Unsigned |-> Some("{}"), RedactedBy |-> "",
      RelatesTo |-> "", RelationType |-> "", MegolmSessionID |-> "",
      DecryptionError |-> "", Reactions |-> NULL, LastEditRowID |-> 0 ]

sqlVariables(e) ==
    << e.RoomID,
       e.ID,
       e.Sender,
       e.Type,
       e.StateKey,
       e.Timestamp,
       unsafeJSONString(e.Content),
       unsafeJSONString(e.Decrypted),
       StrPtr(e.DecryptedType),
       unsafeJSONString(e.Unsigned),
       StrPtr(e.RedactedBy),
       StrPtr(e.RelatesTo),
       StrPtr(e.RelationType),
       StrPtr(e.MegolmSessionID),
       StrPtr(e.DecryptionError),
       e.Reactions,
       NumPtr(e.LastEditRowID) >>

\* INSERT INTO event (...) VALUES ($1, ..., $15): the row the statement
\* proposes; reactions and last_edit_rowid are not among its columns
excluded(v) ==
    [ room_id |-> v[1], event_id |-> v[2], sender |-> v[3], type |-> v[4],
      state_key |-> v[5], timestamp |-> v[6], content |-> v[7],
      decrypted |-> v[8], decrypted_type |-> v[9], unsigned |-> v[10],
      redacted_by |-> v[11], relates_to |-> v[12], relation_type |-> v[13],
      megolm_session_id |-> v[14], decryption_error |-> v[15],
      reactions |-> NULL, last_edit_rowid |-> NULL ]

COALESCE(x, y) == IF x # NULL THEN x ELSE y

\* a conflicting row left as it was: the values of the new event win
MutOnConflictOverwrite(event, new) ==
    [ event EXCEPT
        !.decrypted = new.decrypted,
        !.decrypted_type = new.decrypted_type,
        !.redacted_by = new.redacted_by,
        !.decryption_error = new.decryption_error ]

\* ON CONFLICT (event_id) DO UPDATE SET ...
onConflictUpdate(event, new) ==
    [ event EXCEPT
        !.decrypted = COALESCE(event.decrypted, new.decrypted),
        !.decrypted_type = COALESCE(event.decrypted_type, new.decrypted_type),
        !.redacted_by = COALESCE(event.redacted_by, new.redacted_by),
        !.decryption_error =
            IF COALESCE(event.decrypted, new.decrypted) = NULL
            THEN COALESCE(new.decryption_error, event.decryption_error)
            ELSE NULL ]

RowIDs(rows) == 1 .. Len(rows)
rowsWithEventID(rows, eventID) == { r \in RowIDs(rows) : rows[r].event_id = eventID }

\* upsertEventQuery on the rows of the table: the rows afterwards and the
\* rowid it returns
upsertEventQuery(rows, v) ==
    LET found == rowsWithEventID(rows, v[2]) IN
    IF found = {}
    THEN [ rows |-> Append(rows, excluded(v)), rowid |-> Len(rows) + 1,
           conflict |-> FALSE ]
    ELSE LET r == CHOOSE x \in found : TRUE IN
         [ rows |-> [rows EXCEPT ![r] = onConflictUpdate(rows[r], excluded(v))],
           rowid |-> r, conflict |-> TRUE ]

\* updateEventDecryptedQuery
updateEventDecryptedQuery(rows, decrypted, decryptedType, rowID) ==
    [ r \in RowIDs(rows) |->
        IF r = rowID
        THEN [ rows[r] EXCEPT !.decrypted = decrypted,
                              !.decrypted_type = Some(decryptedType),
                              !.decryption_error = NULL ]
        ELSE rows[r] ]

\* func (e *Event) Scan over the columns of getEventBaseQuery
Scan(rowid, row) ==
    [ RowID |-> rowid,
      TimelineRowID |-> -1,
      RoomID |-> row.room_id,
      ID |-> row.event_id,
      Sender |-> row.sender,
      Type |-> row.type,
      StateKey |-> row.state_key,
      Timestamp |-> row.timestamp,
      Content |-> row.content,
      Decrypted |-> row.decrypted,
      DecryptedType |-> NullString(row.decrypted_type),
      Unsigned |-> row.unsigned,
      RedactedBy |-> NullString(row.redacted_by),
      RelatesTo |-> NullString(row.relates_to),
      RelationType |-> NullString(row.relates_to),
      MegolmSessionID |-> NullString(row.megolm_session_id),
      DecryptionError |-> NullString(row.decryption_error),
      Reactions |-> row.reactions,
      LastEditRowID |-> NullInt64(row.last_edit_rowid) ]

CanUseForPreview(e) ==
    /\ \/ e.Type = EventMessage
       \/ e.Type = EventSticker
       \/ /\ e.Type = EventEncrypted
          /\ e.DecryptedType = EventMessage \/ e.DecryptedType = EventSticker
    /\ e.RelationType # RelReplace

BumpsSortingTimestamp(e) ==
    /\ e.Type = EventMessage \/ e.Type = EventSticker \/ e.Type = EventEncrypted
    /\ e.RelationType # RelReplace

(***************************************************************************)
(* The callers of the EventQuery.                                          *)
(***************************************************************************)
ErrDB == "database error"

\* the events the sync and decryption code hands to Upsert
UndecryptedA ==
    [NewEvent EXCEPT !.ID = "$a", !.Type = EventEncrypted,
                     !.Content = Some("{megolm}"), !.MegolmSessionID = "s1",
                     !.DecryptionError = "no session"]
DecryptedA ==
    [NewEvent EXCEPT !.ID = "$a", !.Type = EventEncrypted,
                     !.Content = Some("{megolm}"), !.MegolmSessionID = "s1",
                     !.Decrypted = Some("{hello}"), !.DecryptedType = EventMessage]
UndecryptedEditB ==
    [NewEvent EXCEPT !.ID = "$b", !.Type = EventEncrypted,
                     !.Content = Some("{megolm}"), !.MegolmSessionID = "s1",
                     !.DecryptionError = "no session", !.Timestamp = 2000,
                     !.RelatesTo = "$a", !.RelationType = RelReplace]
ReactionB ==
    [NewEvent EXCEPT !.ID = "$b", !.Type = "m.reaction",
                     !.Content = Some("{key:+}"), !.Timestamp = 2000,
                     !.RelatesTo = "$a", !.RelationType = "m.annotation"]

EventInputs ==
    { UndecryptedA, DecryptedA, UndecryptedEditB, ReactionB,
      [NewEvent EXCEPT !.ID = "$a", !.Type = EventEncrypted,
                       !.Content = Some("{megolm}"), !.MegolmSessionID = "s1",
                       !.Decrypted = Some("{sticker}"), !.DecryptedType = EventSticker,
                       !.RedactedBy = "$r", !.DecryptionError = "replayed"],
      [NewEvent EXCEPT !.ID = "$a", !.Type = EventEncrypted,
                       !.Content = Some("{megolm}"), !.MegolmSessionID = "s1"],
      [NewEvent EXCEPT !.ID = "$b", !.Type = EventMessage, !.Timestamp = 2000,
                       !.RelatesTo = "$a", !.RelationType = RelReplace],
      [NewEvent EXCEPT !.ID = "$b", !.Type = EventSticker, !.RedactedBy = "$r"] }

EventIDInputs == { "$a", "$b", "$c" }
RowIDInputs == { 1, 2, 3 }
DecryptedInputs ==
    { <<Some("{edited}"), EventMessage>>, <<NULL, "">> }

NoLast ==
    [ op |-> "none", err |-> NoError, panic |-> FALSE, at |-> "",
      evt |-> NULL, rowID |-> 0, conflict |-> FALSE, before |-> NULL,
      from |-> NULL, events |-> << >>, eventIDs |-> << >>, result |-> << >> ]

DBInit ==
    /\ table = << >>
    /\ last = NoLast

\* Upsert: the statement runs, and on success the event takes the rowid
Upsert(evt, dbOK) ==
    LET done == upsertEventQuery(table, sqlVariables(evt)) IN
    /\ table' = IF dbOK THEN done.rows ELSE table
    /\ last' = IF dbOK
               THEN [ NoLast EXCEPT
                        !.op = "Upsert",
                        !.evt = Some([evt EXCEPT !.RowID = done.rowid]),
                        !.rowID = done.rowid,
                        !.conflict = done.conflict,
                        !.before = IF done.conflict
                                   THEN Some(table[done.rowid]) ELSE NULL ]
               ELSE [ NoLast EXCEPT !.op = "Upsert", !.err = ErrDB,
                                    !.evt = Some(evt) ]
    /\ UNCHANGED pickleVars
    /\ UNCHANGED cipherVars

UpdateDecrypted(rowID, decrypted, decryptedType, dbOK) ==
    /\ table' = IF dbOK
                THEN updateEventDecryptedQuery(table, unsafeJSONString(decrypted),
                                               decryptedType, rowID)
                ELSE table
    /\ last' = [ NoLast EXCEPT
                   !.op = "UpdateDecrypted",
                   !.err = IF dbOK THEN NoError ELSE ErrDB,
                   !.rowID = rowID ]
    /\ UNCHANGED pickleVars
    /\ UNCHANGED cipherVars

\* GetByID: QueryOne scans the row found, and returns no event when there
\* is none
GetByID(eventID, dbOK) ==
    LET found == rowsWithEventID(table, eventID)
        r == CHOOSE x \in found : TRUE
    IN
    /\ last' = IF ~dbOK
               THEN [ NoLast EXCEPT !.op = "GetByID", !.err = ErrDB ]
               ELSE IF found = {}
               THEN [ NoLast EXCEPT !.op = "GetByID" ]
               ELSE [ NoLast EXCEPT
                        !.op = "GetByID",
                        !.evt = Some(Scan(r, table[r])),
                        !.rowID = r,
                        !.from = IF /\ last.op = "Upsert"
                                    /\ last.err = NoError
                                    /\ ~last.conflict
                                    /\ last.rowID = r
                                 THEN last.evt ELSE NULL ]
    /\ UNCHANGED table
    /\ UNCHANGED pickleVars
    /\ UNCHANGED cipherVars


EventsNext ==
    \/ \E evt \in EventInputs, dbOK \in BOOLEAN : Upsert(evt, dbOK)
    \/ \E rowID \in RowIDInputs, d \in DecryptedInputs, dbOK \in BOOLEAN : UpdateDecrypted(rowID, d[1], d[2], dbOK)
    \/ \E eventID \in EventIDInputs, dbOK \in BOOLEAN : GetByID(eventID, dbOK)

(***************************************************************************)
(* Reaction counts and last edits of a list of events.                     *)
(***************************************************************************)
\* strings.Repeat(s, count) over a string kept as its characters
RECURSIVE Repeat(_, _)
Repeat(s, count) == IF count = 0 THEN << >> ELSE s \o Repeat(s, count - 1)

\* the two query texts: whether the text binds room_id = ? before its
\* IN (%s) list
getEventReactionsQuery == [ name |-> "getEventReactionsQuery", room |-> TRUE ]
getEventEditRowIDsQuery == [ name |-> "getEventEditRowIDsQuery", room |-> FALSE ]

\* buildMultiEventGetFunction: placeholders[:len(placeholders)-1] is out of
\* range when there is no event id
buildMultiEventGetFunction(roomID, eventIDs, query) ==
    LET params == <<roomID>> \o eventIDs
        placeholders == Repeat(<<"?", ",">>, Len(eventIDs))
    IN
    IF Len(placeholders) - 1 < 0
    THEN [ panic |-> TRUE, query |-> query, placeholders |-> << >>, params |-> params ]
    ELSE [ panic |-> FALSE, query |-> query,
           placeholders |-> SubSeq(placeholders, 1, Len(placeholders) - 1),
           params |-> params ]

\* the values the statement binds to the ? of its IN list, in order: the
\* parameters are positional, and those beyond the last ? are not bound
boundToIn(built) ==
    LET count == Cardinality({ i \in DOMAIN built.placeholders :
                                  built.placeholders[i] = "?" })
        first == IF built.query.room THEN 2 ELSE 1
    IN { built.params[i] : i \in first .. (first + count - 1) }

\* the rows a statement returns, in rowid order
RECURSIVE rowsInOrder(_, _)
rowsInOrder(rows, wanted) ==
    IF wanted = {} THEN << >>
    ELSE LET r == CHOOSE x \in wanted : \A y \in wanted : x <= y IN
         <<r>> \o rowsInOrder(rows, wanted \ {r})

\* getEventReactionsQuery with its parameters bound
reactionRows(rows, built) ==
    { r \in RowIDs(rows) :
        /\ rows[r].room_id = built.params[1]
        /\ rows[r].type = "m.reaction"
        /\ rows[r].relation_type = Some("m.annotation")
        /\ rows[r].redacted_by = NULL
        /\ rows[r].relates_to # NULL
        /\ rows[r].relates_to[1] \in boundToIn(built) }

\* getEventEditRowIDsQuery with its parameters bound: main.event_id and the
\* rowid of each edit, by main.event_id and edit.timestamp
editRows(rows, built, mainID) ==
    { e \in RowIDs(rows) :
        \E m \in RowIDs(rows) :
            /\ rows[m].event_id = mainID
            /\ mainID \in boundToIn(built)
            /\ rows[e].room_id = rows[m].room_id
            /\ rows[e].relates_to = Some(rows[m].event_id)
            /\ rows[e].relation_type = Some(RelReplace)
            /\ rows[e].type = rows[m].type
            /\ rows[e].sender = rows[m].sender
            /\ rows[e].redacted_by = NULL }

RECURSIVE byTimestamp(_, _)
byTimestamp(rows, wanted) ==
    IF wanted = {} THEN << >>
    ELSE LET r == CHOOSE x \in wanted :
                    \A y \in wanted :
                        \/ rows[x].timestamp < rows[y].timestamp
                        \/ rows[x].timestamp = rows[y].timestamp /\ x <= y
         IN <<r>> \o byTimestamp(rows, wanted \ {r})

\* GetEditRowIDs: the map from event id to the rowids of its edits
GetEditRowIDs(rows, roomID, eventIDs, dbOK) ==
    LET built == buildMultiEventGetFunction(roomID, eventIDs, getEventEditRowIDsQuery)
        mains == { rows[m].event_id : m \in RowIDs(rows) }
        edited == { mainID \in mains : editRows(rows, built, mainID) # {} }
    IN
    IF built.panic
    THEN [ panic |-> TRUE, err |-> NoError, output |-> << >> ]
    ELSE IF ~dbOK
    THEN [ panic |-> FALSE, err |-> ErrDB, output |-> << >> ]
    ELSE [ panic |-> FALSE, err |-> NoError,
           output |-> [ mainID \in edited |->
                          byTimestamp(rows, editRows(rows, built, mainID)) ] ]

\* dest.Counts[keyRes.Str]++ over the reactions to one event
reactionCounts(rows, reactions, evtID) ==
    LET mine == { r \in reactions : rows[r].relates_to = Some(evtID) }
        keys == { reactionKey(rows[r].content)[1] :
                    r \in { x \in mine : reactionKey(rows[x].content) # NULL } }
    IN [ k \in keys |->
           Cardinality({ r \in mine : reactionKey(rows[r].content) = Some(k) }) ]

\* GetReactions: the result map, and the rows after the transaction that
\* stores the counts
GetReactions(rows, roomID, eventIDs, dbOK) ==
    LET built == buildMultiEventGetFunction(roomID, eventIDs, getEventReactionsQuery)
        reactions == reactionRows(rows, built)
        empty == [ evtID \in { eventIDs[n] : n \in DOMAIN eventIDs } |-> [ Events |-> << >>, Counts |-> << >> ] ]
        result == [ evtID \in { eventIDs[n] : n \in DOMAIN eventIDs } |->
                      [ Events |-> LET mine == { r \in reactions :
                                                   rows[r].relates_to = Some(evtID) }
                                       order == rowsInOrder(rows, mine)
                                   IN [ i \in DOMAIN order |-> Scan(order[i], rows[order[i]]) ],
                        Counts |-> reactionCounts(rows, reactions, evtID) ] ]
    IN
    IF ~dbOK
    THEN [ panic |-> FALSE, err |-> ErrDB, result |-> empty, rows |-> rows ]
    ELSE IF built.panic
    THEN [ panic |-> TRUE, err |-> NoError, result |-> empty, rows |-> rows ]
    ELSE [ panic |-> FALSE, err |-> NoError, result |-> result,
           rows |-> [ r \in RowIDs(rows) |->
                        IF /\ rows[r].event_id \in DOMAIN result
                           /\ DOMAIN result[rows[r].event_id].Counts # {}
                        THEN [ rows[r] EXCEPT
                                 !.reactions = Some(result[rows[r].event_id].Counts) ]
                        ELSE rows[r] ] ]

\* the loop of FillReactionCounts and FillLastEditRowIDs over the events:
\* eventIDs is make([]id.EventID, 0), and eventIDs[i] = evt.ID is out of
\* range for every i
RECURSIVE collectEventIDs(_, _, _, _)
collectEventIDs(events, unfilled, i, st) ==
    IF i > Len(events) THEN st
    ELSE IF ~unfilled[i] THEN collectEventIDs(events, unfilled, i + 1, st)
    ELSE IF i > Len(st.eventIDs) THEN [ st EXCEPT !.panic = TRUE ]
    ELSE collectEventIDs(events, unfilled, i + 1,
             [ st EXCEPT !.eventIDs[i] = events[i].ID,
                         !.eventMap = (events[i].ID :> i) @@ st.eventMap ])

FillReactionCounts(roomID, events, dbOK) ==
    LET unfilled == [ i \in DOMAIN events |-> events[i].Reactions = NULL ]
        st == collectEventIDs(events, unfilled, 1,
                  [ panic |-> FALSE, eventIDs |-> << >>, eventMap |-> << >> ])
        got == GetReactions(table, roomID, st.eventIDs, dbOK)
        filled == [ i \in DOMAIN events |->
                      IF \E evtID \in DOMAIN got.result : st.eventMap[evtID] = i
                      THEN [ events[i] EXCEPT
                               !.Reactions = Some(got.result[events[i].ID].Counts) ]
                      ELSE events[i] ]
    IN
    /\ last' = IF st.panic
               THEN [ NoLast EXCEPT !.op = "FillReactionCounts", !.panic = TRUE,
                                    !.at = "eventIDs[i] = evt.ID",
                                    !.events = events, !.eventIDs = st.eventIDs ]
               ELSE IF got.panic
               THEN [ NoLast EXCEPT !.op = "FillReactionCounts", !.panic = TRUE,
                                    !.at = "placeholders[:len(placeholders)-1]",
                                    !.events = events, !.eventIDs = st.eventIDs ]
               ELSE IF got.err # NoError
               THEN [ NoLast EXCEPT !.op = "FillReactionCounts", !.err = got.err,
                                    !.events = events, !.eventIDs = st.eventIDs ]
               ELSE [ NoLast EXCEPT !.op = "FillReactionCounts",
                                    !.events = filled, !.eventIDs = st.eventIDs,
                                    !.result = got.result ]
    /\ table' = IF st.panic THEN table ELSE got.rows
    /\ UNCHANGED pickleVars
    /\ UNCHANGED cipherVars

FillLastEditRowIDs(roomID, events, dbOK) ==
    LET unfilled == [ i \in DOMAIN events |-> events[i].LastEditRowID = 0 ]
        st == collectEventIDs(events, unfilled, 1,
                  [ panic |-> FALSE, eventIDs |-> << >>, eventMap |-> << >> ])
        got == GetEditRowIDs(table, roomID, st.eventIDs, dbOK)
        lastEdit(evtID) == got.output[evtID][Len(got.output[evtID])]
        filled == [ i \in DOMAIN events |->
                      IF \E evtID \in DOMAIN got.output : st.eventMap[evtID] = i
                      THEN [ events[i] EXCEPT !.LastEditRowID = lastEdit(events[i].ID) ]
                      ELSE events[i] ]
    IN
    /\ last' = IF st.panic
               THEN [ NoLast EXCEPT !.op = "FillLastEditRowIDs", !.panic = TRUE,
                                    !.at = "eventIDs[i] = evt.ID",
                                    !.events = events, !.eventIDs = st.eventIDs ]
               ELSE IF ~dbOK
               THEN [ NoLast EXCEPT !.op = "FillLastEditRowIDs", !.err = ErrDB,
                                    !.events = events, !.eventIDs = st.eventIDs ]
               ELSE IF got.panic
               THEN [ NoLast EXCEPT !.op = "FillLastEditRowIDs", !.panic = TRUE,
                                    !.at = "placeholders[:len(placeholders)-1]",
                                    !.events = events, !.eventIDs = st.eventIDs ]
               ELSE [ NoLast EXCEPT !.op = "FillLastEditRowIDs",
                                    !.events = filled, !.eventIDs = st.eventIDs,
                                    !.result = got.output ]
    /\ table' = IF st.panic \/ ~dbOK \/ got.panic
                THEN table
                ELSE [ r \in RowIDs(table) |->
                         IF table[r].event_id \in DOMAIN got.output
                         THEN [ table[r] EXCEPT
                                  !.last_edit_rowid = Some(lastEdit(table[r].event_id)) ]
                         ELSE table[r] ]
    /\ UNCHANGED pickleVars
    /\ UNCHANGED cipherVars

\* GetReactions and GetEditRowIDs called with event ids of the caller's own
CallGetReactions(roomID, eventIDs, dbOK) ==
    LET got == GetReactions(table, roomID, eventIDs, dbOK) IN
    /\ last' = [ NoLast EXCEPT !.op = "GetReactions", !.panic = got.panic,
                               !.at = IF got.panic THEN "placeholders[:len(placeholders)-1]" ELSE "",
                               !.err = got.err, !.eventIDs = eventIDs,
                               !.result = got.result ]
    /\ table' = got.rows
    /\ UNCHANGED pickleVars
    /\ UNCHANGED cipherVars

CallGetEditRowIDs(roomID, eventIDs, dbOK) ==
    LET got == GetEditRowIDs(table, roomID, eventIDs, dbOK) IN
    /\ last' = [ NoLast EXCEPT !.op = "GetEditRowIDs", !.panic = got.panic,
                               !.at = IF got.panic THEN "placeholders[:len(placeholders)-1]" ELSE "",
                               !.err = got.err, !.eventIDs = eventIDs,
                               !.result = got.output ]
    /\ UNCHANGED table
    /\ UNCHANGED pickleVars
    /\ UNCHANGED cipherVars

\* the tables the calls below find: what Upsert left of the events given
RECURSIVE tableAfter(_)
tableAfter(evts) ==
    IF evts = << >> THEN << >>
    ELSE upsertEventQuery(tableAfter(SubSeq(evts, 1, Len(evts) - 1)),
                          sqlVariables(evts[Len(evts)])).rows

FillTables ==
    { tableAfter(<< >>),
      tableAfter(<<DecryptedA, ReactionB>>),
      tableAfter(<<UndecryptedA, UndecryptedEditB>>) }

\* the events of a list handed to FillReactionCounts or FillLastEditRowIDs:
\* with and without their reactions and last edit
FillEventInputs ==
    { [NewEvent EXCEPT !.ID = "$a", !.RowID = 1],
      [NewEvent EXCEPT !.ID = "$a", !.RowID = 1,
                       !.Reactions = Some(("+" :> 1)), !.LastEditRowID = 2],
      [NewEvent EXCEPT !.ID = "$b", !.RowID = 2, !.Reactions = Some(<< >>)],
      [NewEvent EXCEPT !.ID = "$b", !.RowID = 2, !.LastEditRowID = 2] }

MaxEvents == 2
EventLists ==
    UNION { [1 .. n -> FillEventInputs] : n \in 0 .. MaxEvents }
EventIDLists == { << >>, <<"$a">>, <<"$a", "$b">>, <<"$c">> }


FillNext ==
    \/ \E events \in EventLists, dbOK \in BOOLEAN : FillReactionCounts("!room", events, dbOK)
    \/ \E events \in EventLists, dbOK \in BOOLEAN : FillLastEditRowIDs("!room", events, dbOK)
    \/ \E eventIDs \in EventIDLists, dbOK \in BOOLEAN : CallGetReactions("!room", eventIDs, dbOK)
    \/ \E eventIDs \in EventIDLists, dbOK \in BOOLEAN : CallGetEditRowIDs("!room", eventIDs, dbOK)

\* the codec alone
InitPickle == PickleInit /\ CipherIdle /\ DBInit
SpecPickle == InitPickle /\ [][PickleNext]_vars

\* the cipher alone
InitCipher == PickleInit /\ CipherInit /\ DBInit
SpecCipher == InitCipher /\ [][CipherNext]_vars

\* The key derivation over readers of any length.  crypto.HKDFSHA256 hands
\* deriveAESKeys an io.Reader; how io.ReadFull's error is passed on is seen
\* with readers that end before 80 bytes.
StreamLengths == { 0, 32, 79, 80, HKDFSHA256Limit }

DeriveInit ==
    \E ctx \in Contexts, n \in StreamLengths :
        /\ heap = [info |-> ctx]
        /\ c = NewAESSHA256([ptr |-> "info", len |-> Len(ctx)])
        /\ kdfInfo0 = ctx
        /\ kdfLimit = n
        /\ call = NoCall

DeriveNext ==
    \/ Encrypts
    \/ DecryptsOutput
    \/ DecryptsArbitrary
    \/ MACs

InitDerive == PickleInit /\ DeriveInit /\ DBInit
SpecDerive == InitDerive /\ [][DeriveNext]_vars

\* the event table alone
InitEvents == PickleInit /\ CipherIdle /\ DBInit
SpecEvents == InitEvents /\ [][EventsNext]_vars

\* the fill calls alone
InitFill == PickleInit /\ CipherIdle /\ table \in FillTables /\ last = NoLast
SpecFill == InitFill /\ [][FillNext]_vars

(***************************************************************************)
(* Properties of the pickle codec (checked under SpecPickle).              *)
(***************************************************************************)
\* the pickled width of a record of the given kind
PickleWidth(kind) == IF kind = "KeyPair" THEN 64 ELSE 69
\* the record's key pair came out of GenerateKey or GenerateFromPrivate
Constructed(rec) == rec.how \in {"generate", "fromPrivate", "fromZeroPrivate"}
BothHalves(kp) ==
    /\ Len(kp.PrivateKey) = Curve25519PrivateKeyLength
    /\ Len(kp.PublicKey) = Curve25519PublicKeyLength
\* the private key is 32 zero bytes
ZeroPrivate(kp) == kp.PrivateKey = Fill(0, Curve25519PrivateKeyLength)
\* the public key is the image of the private key
Consistent(kp) == PubKey(kp.PrivateKey).err = NoError
                    /\ kp.PublicKey = PubKey(kp.PrivateKey).val
\* the last read was handed at least the whole record and came back as it
\* does for every record: no error, no fault, the full width consumed
WholeReadSucceeds ==
    (res.kind # "none" /\ res.given >= PickleWidth(res.kind)) =>
        /\ res.err = NoError
        /\ ~res.panic
        /\ res.read = PickleWidth(res.kind)

\* C1 (as stated): a key pair or one-time-key record built by generate or
\* fromPrivate, pickled and then unpickled into a fresh value, comes back
\* Equal to the original, without error, and the bytes-read count is the
\* pickled width: 64 for a key pair, 69 for a one-time-key record.
C1_EveryConstructedRoundTrip ==
    /\ \A i \in 1..Len(decoded) :
        Constructed(records[i]) =>
            /\ OneTimeKeyEqual(decoded[i].val, records[i].val)
            /\ decoded[i].read = PickleWidth(records[i].kind)
    /\ WholeReadSucceeds

\* C1 (amended): the same for every such pair whose private key is not 32
\* zero bytes.  A pair made by fromPrivate from 32 zero bytes pickles to the
\* bytes of a pair without private key: unpickling succeeds and consumes
\* the full width, the public key comes back, the private key comes back
\* absent.
C1_RoundTrip ==
    /\ \A i \in 1..Len(decoded) :
        Constructed(records[i]) =>
            /\ decoded[i].read = PickleWidth(records[i].kind)
            /\ decoded[i].read = Len(records[i].bytes)
            /\ IF ZeroPrivate(records[i].val.Key)
               THEN decoded[i].val =
                        [records[i].val EXCEPT !.Key.PrivateKey = << >>]
               ELSE OneTimeKeyEqual(decoded[i].val, records[i].val)
    /\ WholeReadSucceeds

C1_Witness ==
    /\ Len(decoded) = 2
    /\ records[1].kind = "KeyPair" /\ records[1].how = "fromPrivate"
    /\ records[2].kind = "OneTimeKey" /\ records[2].how = "generate"
    /\ records[2].val.ID = 1 /\ ~records[2].val.Published
    /\ decoded[1].read = 64 /\ decoded[2].read = 69
    /\ OneTimeKeyEqual(decoded[2].val, records[2].val)

\* C2: pickling writes exactly the fixed width whatever the fields hold: 64
\* bytes for a key pair, 69 for a one-time-key record.  A private or public
\* key that is absent or of the wrong length is written as 32 zero bytes at
\* its fixed place (public key in bytes 0-31 of the key pair, private key
\* in bytes 32-63); a 32-byte field is written as it is.
C2_FixedWidth ==
    \A i \in 1..Len(records) :
        LET rec == records[i]
            kp == rec.val.Key
            at == IF rec.kind = "KeyPair" THEN 0 ELSE 5
        IN  /\ Len(rec.bytes) = PickleWidth(rec.kind)
            /\ SubSeq(rec.bytes, at + 1, at + 32) =
                    (IF Len(kp.PublicKey) = 32 THEN kp.PublicKey ELSE Fill(0, 32))
            /\ SubSeq(rec.bytes, at + 33, at + 64) =
                    (IF Len(kp.PrivateKey) = 32 THEN kp.PrivateKey ELSE Fill(0, 32))

C2_Witness ==
    /\ Len(records) = 2
    /\ records[1].kind = "KeyPair" /\ records[1].how = "privateOnly"
    /\ Len(records[1].bytes) = 64
    /\ records[2].kind = "KeyPair" /\ records[2].how = "shortPrivate"
    /\ Len(records[2].bytes) = 64
    /\ Len(encoder) = 128

\* C6: unpickling from a slice shorter than the record's fixed width (64 for
\* a key pair, 69 for a one-time-key record) returns the truncated-input
\* error and does not fault.  For the first record of a buffer every length
\* below the width is tried; later reads are handed slices cut at and next
\* to the field boundaries.
C6_Truncated ==
    /\ (res.kind # "none" /\ res.given < PickleWidth(res.kind)) =>
            res.err = ErrValueTooShort /\ ~res.panic
    /\ (res = NoResult /\ NextKind = "KeyPair") =>
            \A m \in 0..63 :
                LET r == KeyPairUnpickleLibOlm(EmptyKeyPair, Given(m))
                IN  r.err = ErrValueTooShort /\ ~r.panic
    /\ (res = NoResult /\ NextKind = "OneTimeKey") =>
            \A m \in 0..68 :
                LET r == OneTimeKeyUnpickleLibOlm(EmptyOneTimeKey, Given(m))
                IN  r.err = ErrValueTooShort /\ ~r.panic

C6_Witness ==
    /\ Len(decoded) = 1
    /\ res.kind = "OneTimeKey" /\ res.given = 68
    /\ res.err = ErrValueTooShort /\ ~res.panic

\* the buffer holds the records as they were written, and the reader's
\* offset stands at the start of the next record, or at the end of the
\* buffer once every record is decoded
ChainInPlace ==
    /\ \A i \in 1..Len(records) :
        SubSeq(encoder, records[i].start + 1, records[i].start + Len(records[i].bytes))
            = records[i].bytes
    /\ Len(decoded) <= Len(records)
    /\ IF Len(decoded) < Len(records)
       THEN offset = records[Len(decoded) + 1].start
       ELSE offset = Len(encoder)

C10_EveryProducedPair ==
    /\ \A i \in 1..Len(records) :
        Constructed(records[i]) => Consistent(records[i].val.Key)
    /\ \A i \in 1..Len(decoded) :
        Len(decoded[i].val.Key.PrivateKey) > 0 => Consistent(decoded[i].val.Key)

\* C10 (amended): every key pair made by generate or fromPrivate has its
\* private key present and its public key the image of it, and in what
\* unpickle makes of the pickle of such a pair a private key that is
\* present still has the public key as its image.  Unpickle itself derives
\* nothing: it takes both halves from the bytes.
C10_ConstructedPairs ==
    /\ \A s \in ConstructedSources : BothHalves(s.kp) /\ Consistent(s.kp)
    /\ \A p \in PrivateInputs :
        LET r == Curve25519GenerateFromPrivate(p)
        IN  IF Len(p) = Curve25519PrivateKeyLength
            THEN r.err = NoError /\ r.kp.PrivateKey = p /\ Consistent(r.kp)
            ELSE r.err # NoError
    /\ \A i \in 1..Len(records) :
        Constructed(records[i]) => Consistent(records[i].val.Key)
    /\ \A i \in 1..Len(decoded) :
        Constructed(records[i]) =>
            /\ decoded[i].val.Key.PublicKey = records[i].val.Key.PublicKey
            /\ Len(decoded[i].val.Key.PrivateKey) > 0 => Consistent(decoded[i].val.Key)

C10_Witness ==
    /\ Len(decoded) = 2
    /\ records[1].how = "generate" /\ records[2].how = "fromPrivate"
    /\ BothHalves(decoded[1].val.Key) /\ BothHalves(decoded[2].val.Key)
    /\ Consistent(decoded[1].val.Key) /\ Consistent(decoded[2].val.Key)
    /\ decoded[1].val.Key # decoded[2].val.Key

(***************************************************************************)
(* Properties of the cipher (checked under SpecCipher).                    *)
(***************************************************************************)
\* C3: decrypting, with the same master secret, what Encrypt returned for a
\* plaintext gives that plaintext back and no error, for a plaintext of any
\* length, the empty one and whole multiples of the block size included.
C3_DecryptEncrypt ==
    (/\ call.op = "Decrypt" /\ call.how = "output"
     /\ call.from.op = "Encrypt" /\ call.from.key = call.key) =>
        /\ call.err = NoError
        /\ call.out = call.from.in
        /\ Len(call.in) = BlockSize * ((Len(call.from.in) \div BlockSize) + 1)

C3_Witness ==
    /\ call.op = "Decrypt" /\ call.how = "output"
    /\ call.from.op = "Encrypt" /\ call.from.key = call.key
    /\ Len(call.from.in) = BlockSize
    /\ call.out = call.from.in /\ call.err = NoError

\* C4: for a tag t = MAC(key, message), Verify(key, message, p) is true for
\* every prefix p of t, the empty prefix included; it is false for a prefix
\* of one byte or more with one bit flipped; and in general Verify compares
\* the given tag with the first len(tag) bytes of the recomputed MAC.
C4_VerifyPrefix ==
    /\ (call.op = "Verify" /\ call.how = "prefix" /\ call.from.key = call.key) =>
            call.ok /\ call.err = NoError /\ ~call.panic
    /\ (call.op = "Verify" /\ call.how = "flipped") =>
            ~call.ok /\ call.err = NoError /\ ~call.panic
    /\ (call.op = "Verify" /\ call.err = NoError /\ ~call.panic) =>
            call.ok = (call.tag = SubSeq(MACResult(c, call.key, call.in).val,
                                         1, Len(call.tag)))

C4_Witness ==
    /\ call.op = "Verify" /\ call.how = "prefix" /\ call.from.key = call.key
    /\ Len(call.tag) = 17
    /\ call.ok

\* C5: Verify never returns an error and never faults, whatever tag it is
\* given, a tag longer than the 32-byte MAC included; its answer is just
\* true or false.
C5_VerifyNeverFaults ==
    call.op = "Verify" => (call.err = NoError /\ ~call.panic)

\* C9: the context string of an instance is fixed when it is constructed:
\* every key derivation uses the bytes the context held at construction,
\* whether or not the caller later writes to the buffer it passed, and no
\* call on the instance changes the instance.
C9_ContextFixed ==
    /\ call.op \in {"Encrypt", "Decrypt", "MAC", "Verify"} => call.info = kdfInfo0
    /\ c = NewAESSHA256([ptr |-> "info", len |-> Len(kdfInfo0)])
(***************************************************************************)
(* Properties of the key derivation (checked under SpecDerive).            *)
(***************************************************************************)
\* the first 80 bytes of the stream over (key, empty salt, the context)
Stream80(key) == ReadFull(HKDFSHA256(key, << >>, Deref(c.kdfInfo)), 80)
\* the fields of the derived set, by their places in the stream
CipherKeyOf(key) == SubSeq(Stream80(key).buf, 1, 32)
MacKeyOf(key) == SubSeq(Stream80(key).buf, 33, 64)
IVOf(key) == SubSeq(Stream80(key).buf, 65, 80)

\* C11: key derivation reads 80 bytes of one KDF stream over (master secret,
\* empty salt, context) and splits them in fixed order: cipher key = bytes
\* 0-31, MAC key = bytes 32-63, iv = bytes 64-79.  Encrypt, Decrypt and MAC
\* with the same master secret all work with this set; when the stream
\* yields fewer than 80 bytes each of them returns the error and no
\* ciphertext, plaintext or tag.
C11_DerivedSet ==
    /\ \A key \in MasterSecrets :
        LET keys == deriveAESKeys(Deref(c.kdfInfo), key)
        IN  /\ keys.key = CipherKeyOf(key) /\ Len(keys.key) = 32
            /\ keys.hmacKey = MacKeyOf(key) /\ Len(keys.hmacKey) = 32
            /\ keys.iv = IVOf(key) /\ Len(keys.iv) = 16
            /\ keys.key \o keys.hmacKey \o keys.iv = Stream80(key).buf
            /\ (keys.err = NoError) = (kdfLimit >= 80)
    /\ (call.op \in {"Encrypt", "Decrypt", "MAC"} /\ kdfLimit < 80) =>
            call.err # NoError /\ call.out = << >>
    /\ (call.op = "Encrypt" /\ kdfLimit >= 80) =>
            /\ call.err = AESCBCEncrypt(CipherKeyOf(call.key), IVOf(call.key), call.in).err
            /\ call.out = AESCBCEncrypt(CipherKeyOf(call.key), IVOf(call.key), call.in).val
    /\ (call.op = "Decrypt" /\ kdfLimit >= 80) =>
            /\ call.err = AESCBCDecrypt(CipherKeyOf(call.key), IVOf(call.key), call.in).err
            /\ call.out = AESCBCDecrypt(CipherKeyOf(call.key), IVOf(call.key), call.in).val
    /\ (call.op = "MAC" /\ kdfLimit >= 80) =>
            /\ call.err = NoError
            /\ call.out = HMACSHA256(MacKeyOf(call.key), call.in)

C11_Witness ==
    /\ kdfLimit = 79
    /\ call.op = "MAC" /\ call.err # NoError /\ call.out = << >>


(***************************************************************************)
(* Properties of the fill calls (checked under SpecFill).                  *)
(***************************************************************************)
\* C12: FillReactionCounts and FillLastEditRowIDs complete without a runtime
\* fault for every list of events, and building the multi-event query never
\* indexes or slices out of range, also with an empty list of ids; when a
\* fill call succeeds, the ids it asked for are the ids of the events whose
\* Reactions was nil (whose LastEditRowID was 0).
C12_FillNeverFaults ==
    /\ last.op \in { "FillReactionCounts", "FillLastEditRowIDs",
                     "GetReactions", "GetEditRowIDs" } => ~last.panic
    /\ (last.op = "FillReactionCounts" /\ last.err = NoError) =>
           \A i \in DOMAIN last.events :
               last.events[i].Reactions # NULL \/ last.events[i].ID \in { last.eventIDs[n] : n \in DOMAIN last.eventIDs }

(***************************************************************************)
(* Properties of the event table (checked under SpecEvents).               *)
(***************************************************************************)
\* the last call was an Upsert that met a row with the same event_id
UpsertHitRow ==
    /\ last.op = "Upsert"
    /\ last.err = NoError
    /\ last.conflict

\* the last call was an UpdateDecrypted that changed a row
UpdatedRow ==
    /\ last.op = "UpdateDecrypted"
    /\ last.err = NoError
    /\ last.rowID \in RowIDs(table)

\* C13: an Upsert that meets a row with the same event_id leaves the row's
\* decrypted, decrypted_type and redacted_by as they were when they were not
\* null and fills them from the new event when they were null; after such an
\* Upsert and after every UpdateDecrypted the row's decryption_error is null
\* whenever its decrypted is not null.
C13_UpsertFillsOnly ==
    /\ UpsertHitRow =>
         LET old == last.before[1]
             new == excluded(sqlVariables(last.evt[1]))
             row == table[last.rowID]
         IN
         /\ row.decrypted = IF old.decrypted # NULL THEN old.decrypted ELSE new.decrypted
         /\ row.decrypted_type =
                IF old.decrypted_type # NULL THEN old.decrypted_type ELSE new.decrypted_type
         /\ row.redacted_by =
                IF old.redacted_by # NULL THEN old.redacted_by ELSE new.redacted_by
         /\ row.decrypted # NULL => row.decryption_error = NULL
    /\ UpdatedRow =>
         LET row == table[last.rowID] IN
         row.decrypted # NULL => row.decryption_error = NULL

\* an Upsert met a row that was decrypted, with an event that carries another
\* decrypted content, another decrypted type, a redaction and an error
C13_Witness ==
    /\ UpsertHitRow
    /\ last.before[1].decrypted = Some("{hello}")
    /\ last.before[1].redacted_by = NULL
    /\ last.evt[1].Decrypted = Some("{sticker}")
    /\ last.evt[1].DecryptionError # ""
    /\ table[last.rowID].decrypted = Some("{hello}")
    /\ table[last.rowID].redacted_by = Some("$r")

\* C14: an event stored by Upsert and read back by GetByID has the RelatesTo
\* and the RelationType it was stored with, and CanUseForPreview and
\* BumpsSortingTimestamp answer on it what they answer on the stored event.
C14_ScanReadsBack ==
    (last.op = "GetByID" /\ last.from # NULL) =>
        LET stored == last.from[1]
            read == last.evt[1]
        IN
        /\ read.RelatesTo = stored.RelatesTo
        /\ read.RelationType = stored.RelationType
        /\ CanUseForPreview(read) = CanUseForPreview(stored)
        /\ BumpsSortingTimestamp(read) = BumpsSortingTimestamp(stored)
====
